---- MODULE Spec2Model ----
(***************************************************************************)
(* newpass.py: a random-character password generator, a Diceware           *)
(* passphrase generator and the command-line dispatcher that calls them.   *)
(*                                                                         *)
(* Strings are sequences of ASCII codes.  A value whose Python type        *)
(* matters (the num argument, args.number) is a record                     *)
(* [type |-> "int" | "str" | "none", val |-> integer].                     *)
(***************************************************************************)
EXTENDS Integers, Sequences, FiniteSets, TLC

VARIABLES
    pc,          \* position of the running program
    caller,      \* "none", "direct" (a caller of the function) or "main"
    argv,        \* the command line main() was started with
    args,        \* the argparse namespace after parse_args()
    fn,          \* the generator that was called
    num,         \* its num argument
    special,     \* create_password's special argument
    password,    \* create_password's local string
    wordfile,    \* the WordList.json that open() found beside the script
    dictionary,  \* create_dice_passphrase's loaded word list
    words,       \* create_dice_passphrase's local list
    phrase,      \* create_dice_passphrase's local string
    ret,         \* the string the generator returned
    exc,         \* the exception the generator raised
    result,      \* main()'s result
    stdout,      \* what main() printed
    exit_code,   \* the exit status of the process
    drawn        \* the iteration run alone: the string before it, its x draws

vars == <<pc, caller, argv, args, fn, num, special, password, wordfile,
          dictionary, words, phrase, ret, exc, result, stdout, exit_code,
          drawn>>

----------------------------------------------------------------------------
(* Values *)

IntArg(v) == [type |-> "int", val |-> v]
StrArg == [type |-> "str", val |-> 0]
NoneArg == [type |-> "none", val |-> 0]

isinstance_int(v) == v.type = "int"

\* Python truth value of args.number: None and 0 are false.
Truthy(v) == v.type = "int" /\ v.val # 0

NoText == << >>
NoResult == [msg |-> "none", text |-> NoText]
TextResult(s) == [msg |-> "none", text |-> s]
Message(id) == [msg |-> id, text |-> NoText]

----------------------------------------------------------------------------
(* Program constants *)

MinPasswordNum == 7
MaxPasswordNum == 64
DefaultPasswordNum == 10
MinDiceNum == 4
MaxDiceNum == 12
DefaultDiceNum == 8
MinPhraseLen == 20
MaxPhraseLen == 50
DiceInKey == 5
SpaceChar == 32

\* The ASCII ranges, as the <<start, stop>> arguments of random.randrange.
LowerRange == <<97, 123>>
UpperRange == <<65, 91>>
DigitRange == <<48, 58>>
Special1Range == <<32, 48>>
Special2Range == <<58, 65>>
Special3Range == <<91, 97>>
Special4Range == <<123, 127>>
NoRange == <<0, 0>>

\* random.randrange(start, stop): any integer of start .. stop-1.
randrange(start, stop) == start .. (stop - 1)

----------------------------------------------------------------------------
(* Bounds of the exploration *)

\* Valid password lengths tried: MinPasswordNum .. MaxTriedPasswordNum.
MaxTriedPasswordNum == 7

\* The draws of the 100-sided die x explored in whole runs: both edges of
\* every band the code tests x against.
XEdges == {0, 46, 47, 71, 72, 79, 80, 84, 85, 89, 90, 94, 95, 99}

\* The draws of x explored: every edge when the function is called
\* directly, the two ends of 0..99 when main() calls it.
XTried(by) == IF by = "main" THEN {0, 99} ELSE XEdges

\* The character explored for a range in whole runs: its first one.
FirstOf(range) == {range[1]}

\* The characters explored for a range when one iteration is run alone:
\* its first and its last.
EndsOf(range) ==
    IF range[1] < range[2] THEN {range[1], range[2] - 1} ELSE {range[1]}

\* The faces explored for each die of a key.
DieFaces == {1, 6}

----------------------------------------------------------------------------
(* create_password, lines 63-106 *)

\* TooLow with the comparison off by one.
TooLowInclusive(n, min) == n <= min

TooLow(n, min) == n < min
TooHigh(n, max) == n > max

\* Lines 63-68 and 139-144: the exception the argument checks raise.
CheckNum(n, min, max) ==
    IF ~isinstance_int(n) THEN "NotIntegerError"
    ELSE IF TooLow(n.val, min) THEN "NumberTooLowError"
    ELSE IF TooHigh(n.val, max) THEN "NumberTooHighError"
    ELSE "none"

\* Lines 70-73: the range the leading character is drawn from.
LeadRange(coin) == IF coin THEN LowerRange ELSE UpperRange

\* SpecialAllowed without the room kept for the closing character.
SpecialAllowedToEnd(sp, pw, n) == sp /\ Len(pw) < n

\* SpecialAllowed without the test of the special flag.
SpecialAllowedAlways(sp, pw, n) == Len(pw) < (n - 1)

\* Line 84: whether this iteration may add a special character.
SpecialAllowed(sp, pw, n) == sp /\ Len(pw) < (n - 1)

\* Lines 85-96: the range of the special character a first draw x adds.
SpecialBand(x) ==
    IF x >= 80 /\ x < 85 THEN Special1Range
    ELSE IF x >= 85 /\ x < 90 THEN Special2Range
    ELSE IF x >= 90 /\ x < 95 THEN Special3Range
    ELSE IF x >= 95 /\ x < 100 THEN Special4Range
    ELSE NoRange

\* AlnumBand with the first threshold off by one.
AlnumBandInclusive(x) ==
    IF x <= 47 THEN LowerRange
    ELSE IF x < 72 THEN DigitRange
    ELSE UpperRange

\* Lines 99-104: the range of the letter or digit the final x adds.
AlnumBand(x) ==
    IF x < 47 THEN LowerRange
    ELSE IF x < 72 THEN DigitRange
    ELSE UpperRange

\* Lines 84-96: the range of the special character of this iteration, if any.
SpecialChoice(sp, pw, n, x) ==
    IF SpecialAllowed(sp, pw, n) THEN SpecialBand(x) ELSE NoRange

\* Iteration with the letter or digit left out after a special character.
IterationSpecialOnly(pw, sp, n, x, cs, x2, c) ==
    IF SpecialChoice(sp, pw, n, x) # NoRange
    THEN Append(pw, cs)
    ELSE Append(pw, c)

\* Lines 76-104, one iteration of the while loop, for the draws
\* x (line 76), cs (the special character), x2 (the redrawn x) and
\* c (the letter or digit).
Iteration(pw, sp, n, x, cs, x2, c) ==
    IF SpecialChoice(sp, pw, n, x) # NoRange
    THEN Append(Append(pw, cs), c)
    ELSE Append(pw, c)

\* The x that lines 99-104 test: redrawn exactly when a special was added.
FinalX(sp, pw, n, x, x2) ==
    IF SpecialChoice(sp, pw, n, x) # NoRange THEN x2 ELSE x

----------------------------------------------------------------------------
(* The word list *)

\* The key of one word, lines 164-166: five dice, written as digits.
str(d) == 48 + d
KeysRolled == {[i \in 1..DiceInKey |-> str(f[i])] : f \in [1..DiceInKey -> DieFaces]}

ShortWord == <<97>>
LongWord == <<122, 101, 98, 114, 97, 115>>
HugeWord == <<97, 98, 99, 100, 101, 102, 103, 104, 105, 106, 107, 108, 109>>

\* The files tried as WordList.json: "full" has every key, "holed" lacks
\* the key 66666, "huge" holds only 13-letter words, "absent" cannot be
\* opened or parsed.
WordFiles == {"full", "holed", "huge", "absent"}
Loadable(file) == file # "absent"
HasKey(dict, key) == ~(dict = "holed" /\ key = [i \in 1..DiceInKey |-> str(6)])
Lookup(dict, key) ==
    IF dict = "huge" THEN HugeWord
    ELSE IF key[1] = str(1) THEN ShortWord
    ELSE LongWord
WordsOf(dict) == IF dict = "huge" THEN {HugeWord} ELSE {ShortWord, LongWord}

\* ' '.join(words), line 168.
RECURSIVE Join(_)
Join(ws) ==
    IF ws = << >> THEN << >>
    ELSE IF Len(ws) = 1 THEN ws[1]
    ELSE ws[1] \o <<SpaceChar>> \o Join(Tail(ws))

\* len() summed over a list of words.
RECURSIVE SumLen(_)
SumLen(ws) == IF ws = << >> THEN 0 ELSE Len(ws[1]) + SumLen(Tail(ws))

\* passphrase.split(), newpasstest.py lines 106 and 118: the maximal runs of
\* characters other than the space.
RECURSIVE split(_)
split(s) ==
    LET spaces == {i \in 1..Len(s) : s[i] = SpaceChar}
    IN  IF s = << >> THEN << >>
        ELSE IF spaces = {} THEN <<s>>
        ELSE LET k == CHOOSE i \in spaces : \A j \in spaces : i <= j
             IN  (IF k = 1 THEN << >> ELSE <<SubSeq(s, 1, k - 1)>>)
                 \o split(SubSeq(s, k + 1, Len(s)))

\* LengthAccepted without the upper limit.
LengthAcceptedNoMax(p) == MinPhraseLen <= Len(p)

\* Line 169.
LengthAccepted(p) == MinPhraseLen <= Len(p) /\ Len(p) <= MaxPhraseLen

----------------------------------------------------------------------------
(* The messages of main() *)

\* Lines 211-231 and 240-252: the except clause that catches an exception.
ExceptClause(e) ==
    IF e = "NotIntegerError" THEN Message("must be an integer")
    ELSE IF e = "NumberTooLowError" THEN Message("too low")
    ELSE IF e = "NumberTooHighError" THEN Message("too high")
    ELSE Message("failed for some reason")

\* Lines 225-229: create_dice_passphrase alone has a clause for the
\* missing file.
DiceExceptClause(e) ==
    IF e = "FileNotFoundError" THEN Message("file cannot be found")
    ELSE ExceptClause(e)

\* textwrap.fill(result), lines 233 and 254: a generated string is at most
\* 64 characters and is printed on one line; a message is wrapped, which
\* leaves it the same message.
fill(r) == r

----------------------------------------------------------------------------
(* Inputs tried *)

PasswordNums ==
    {StrArg, IntArg(MinPasswordNum - 1), IntArg(MaxPasswordNum + 1)}
    \cup {IntArg(n) : n \in MinPasswordNum .. MaxTriedPasswordNum}

DiceNums ==
    {StrArg, IntArg(MinDiceNum - 1), IntArg(MinDiceNum),
     IntArg(DefaultDiceNum), IntArg(MaxDiceNum), IntArg(MaxDiceNum + 1)}

\* Command lines: -n is absent ("none"), an integer, or text that int()
\* rejects ("str"); -s and -d are mutually exclusive.
CommandLines ==
    {[number |-> n, special |-> FALSE, dice |-> TRUE] :
        n \in {NoneArg, StrArg, IntArg(-1), IntArg(0), IntArg(MinDiceNum - 1),
               IntArg(MinDiceNum), IntArg(MaxDiceNum + 1)}}
    \cup
    {[number |-> n, special |-> FALSE, dice |-> FALSE] :
        n \in {NoneArg, StrArg, IntArg(-1), IntArg(0),
               IntArg(MinPasswordNum - 1), IntArg(MaxPasswordNum + 1)}}
    \cup
    {[number |-> n, special |-> TRUE, dice |-> FALSE] :
        n \in {NoneArg, IntArg(0), IntArg(MinPasswordNum)}}

NoDraws == [before |-> NoText, xs |-> << >>]
NoArgs == [number |-> NoneArg, special |-> FALSE, dice |-> FALSE]

----------------------------------------------------------------------------
(* The program *)

Init ==
    /\ pc = "start"
    /\ caller = "none"
    /\ argv = NoArgs
    /\ args = NoArgs
    /\ fn = "none"
    /\ num = NoneArg
    /\ special = FALSE
    /\ password = NoText
    /\ wordfile = "unread"
    /\ dictionary = "unloaded"
    /\ words = << >>
    /\ phrase = NoText
    /\ ret = NoText
    /\ exc = "none"
    /\ result = NoResult
    /\ stdout = NoResult
    /\ exit_code = -1
    /\ drawn = NoDraws

\* A caller (the tests, an importing program) calls create_password(n, s).
CallCreatePassword ==
    /\ pc = "start"
    /\ \E n \in PasswordNums, s \in BOOLEAN :
        /\ num' = n
        /\ special' = s
    /\ caller' = "direct"
    /\ fn' = "create_password"
    /\ pc' = "validate"
    /\ UNCHANGED <<argv, args, password, wordfile, dictionary, words, phrase,
                   ret, exc, result, stdout, exit_code, drawn>>

\* A caller calls create_dice_passphrase(n).
CallCreateDicePassphrase ==
    /\ pc = "start"
    /\ \E n \in DiceNums : num' = n
    /\ caller' = "direct"
    /\ fn' = "create_dice_passphrase"
    /\ pc' = "validate"
    /\ UNCHANGED <<argv, args, special, password, wordfile, dictionary, words,
                   phrase, ret, exc, result, stdout, exit_code, drawn>>

\* Lines 179-203: parse_args().  argparse converts -n with int(); when that
\* fails it prints a usage error and exits with status 2.
MainParseArgs ==
    /\ pc = "start"
    /\ \E a \in CommandLines :
        /\ argv' = a
        /\ IF a.number.type = "str"
           THEN /\ args' = args
                /\ stdout' = Message("argparse: invalid int value")
                /\ exit_code' = 2
                /\ pc' = "exited"
           ELSE /\ args' = a
                /\ stdout' = stdout
                /\ exit_code' = exit_code
                /\ pc' = "parsed"
    /\ caller' = "main"
    /\ UNCHANGED <<fn, num, special, password, wordfile, dictionary, words,
                   phrase, ret, exc, result, drawn>>

\* Lines 207-210 and 236-239: the num main() passes to the generator.
NumPassed(number, default) == IF Truthy(number) THEN number ELSE IntArg(default)

\* Lines 205-210 and 234-239: main() calls the generator the mode selects.
MainDispatch ==
    /\ pc = "parsed"
    /\ IF args.dice
       THEN /\ fn' = "create_dice_passphrase"
            /\ num' = NumPassed(args.number, DefaultDiceNum)
            /\ special' = special
       ELSE /\ fn' = "create_password"
            /\ num' = NumPassed(args.number, DefaultPasswordNum)
            /\ special' = args.special
    /\ pc' = "validate"
    /\ UNCHANGED <<caller, argv, args, password, wordfile, dictionary, words,
                   phrase, ret, exc, result, stdout, exit_code, drawn>>

\* Lines 63-68.
ValidatePassword ==
    /\ pc = "validate"
    /\ fn = "create_password"
    /\ exc' = CheckNum(num, MinPasswordNum, MaxPasswordNum)
    /\ pc' = IF exc' = "none" THEN "lead" ELSE "returned"
    /\ UNCHANGED <<caller, argv, args, fn, num, special, password, wordfile,
                   dictionary, words, phrase, ret, result, stdout, exit_code,
                   drawn>>

\* Lines 70-73.
LeadCharacter ==
    /\ pc = "lead"
    /\ \E coin \in BOOLEAN : \E c \in FirstOf(LeadRange(coin)) :
        password' = <<c>>
    /\ pc' = "loop"
    /\ UNCHANGED <<caller, argv, args, fn, num, special, wordfile, dictionary,
                   words, phrase, ret, exc, result, stdout, exit_code, drawn>>

\* Lines 75-104: one iteration of the while loop.
LoopIteration ==
    /\ pc = "loop"
    /\ Len(password) < num.val
    /\ \E x \in XTried(caller), x2 \in XTried(caller) :
        LET sr == SpecialChoice(special, password, num.val, x)
            ar == AlnumBand(FinalX(special, password, num.val, x, x2))
        IN  \E cs \in FirstOf(sr), c \in FirstOf(ar) :
                password' = Iteration(password, special, num.val, x, cs, x2, c)
    /\ UNCHANGED <<pc, caller, argv, args, fn, num, special, wordfile,
                   dictionary, words, phrase, ret, exc, result, stdout,
                   exit_code, drawn>>

\* Lines 75 and 106: the loop condition fails and the password is returned.
ReturnPassword ==
    /\ pc = "loop"
    /\ ~(Len(password) < num.val)
    /\ ret' = password
    /\ pc' = "returned"
    /\ UNCHANGED <<caller, argv, args, fn, num, special, password, wordfile,
                   dictionary, words, phrase, exc, result, stdout, exit_code,
                   drawn>>

\* Lines 139-144.
ValidateDice ==
    /\ pc = "validate"
    /\ fn = "create_dice_passphrase"
    /\ exc' = CheckNum(num, MinDiceNum, MaxDiceNum)
    /\ pc' = IF exc' = "none" THEN "load" ELSE "returned"
    /\ UNCHANGED <<caller, argv, args, fn, num, special, password, wordfile,
                   dictionary, words, phrase, ret, result, stdout, exit_code,
                   drawn>>

\* Lines 146-159: the file beside the script is opened and parsed, or
\* FileNotFoundError is raised; then the first attempt starts with no words.
LoadWordList ==
    /\ pc = "load"
    /\ \E file \in WordFiles :
        /\ wordfile' = file
        /\ IF Loadable(file)
           THEN /\ dictionary' = file
                /\ exc' = exc
                /\ pc' = "roll"
           ELSE /\ dictionary' = dictionary
                /\ exc' = "FileNotFoundError"
                /\ pc' = "returned"
    /\ UNCHANGED <<caller, argv, args, fn, num, special, password,
                   words, phrase, ret, result, stdout, exit_code, drawn>>

\* Lines 163-167: one word is rolled and looked up; a key the word list
\* lacks raises KeyError out of the function.
RollWord ==
    /\ pc = "roll"
    /\ Len(words) < num.val
    /\ \E key \in KeysRolled :
        IF HasKey(dictionary, key)
        THEN /\ words' = Append(words, Lookup(dictionary, key))
             /\ exc' = exc
             /\ pc' = pc
        ELSE /\ words' = words
             /\ exc' = "KeyError"
             /\ pc' = "returned"
    /\ UNCHANGED <<caller, argv, args, fn, num, special, password, wordfile,
                   dictionary, phrase, ret, result, stdout, exit_code, drawn>>

\* Lines 168-172 and 157-159: the words are joined; a phrase of accepted
\* length is returned, any other starts the next attempt.
JoinAndCheck ==
    /\ pc = "roll"
    /\ ~(Len(words) < num.val)
    /\ LET p == Join(words)
       IN  IF LengthAccepted(p)
           THEN /\ phrase' = p
                /\ ret' = p
                /\ words' = words
                /\ pc' = "returned"
           ELSE /\ phrase' = NoText
                /\ ret' = ret
                /\ words' = << >>
                /\ pc' = pc
    /\ UNCHANGED <<caller, argv, args, fn, num, special, password, wordfile,
                   dictionary, exc, result, stdout, exit_code, drawn>>

\* Lines 211-233 and 240-254: main() takes the returned string or the
\* message of the except clause as result and prints it.
MainPrint ==
    /\ pc = "returned"
    /\ caller = "main"
    /\ result' = IF exc = "none" THEN TextResult(ret)
                 ELSE IF fn = "create_dice_passphrase" THEN DiceExceptClause(exc)
                 ELSE ExceptClause(exc)
    /\ stdout' = fill(result')
    /\ pc' = "printed"
    /\ UNCHANGED <<caller, argv, args, fn, num, special, password, wordfile,
                   dictionary, words, phrase, ret, exc, exit_code, drawn>>

\* Lines 257-258: main() returns and the interpreter ends with status 0.
ProcessExit ==
    /\ pc = "printed"
    /\ exit_code' = 0
    /\ pc' = "exited"
    /\ UNCHANGED <<caller, argv, args, fn, num, special, password, wordfile,
                   dictionary, words, phrase, ret, exc, result, stdout, drawn>>

Next ==
    \/ CallCreatePassword
    \/ CallCreateDicePassphrase
    \/ MainParseArgs
    \/ MainDispatch
    \/ ValidatePassword
    \/ LeadCharacter
    \/ LoopIteration
    \/ ReturnPassword
    \/ ValidateDice
    \/ LoadWordList
    \/ RollWord
    \/ JoinAndCheck
    \/ MainPrint
    \/ ProcessExit

Spec == Init /\ [][Next]_vars

----------------------------------------------------------------------------
(* One iteration of the append loop, run alone on every draw of x *)

\* A string the loop can hold before an iteration: a lower-case lead and
\* lower-case letters after it (x < 47 in every earlier iteration).
LowerPrefix(len) == [i \in 1..len |-> LowerRange[1]]

IterInit ==
    /\ pc = "loop"
    /\ caller = "direct"
    /\ argv = NoArgs
    /\ args = NoArgs
    /\ fn = "create_password"
    /\ \E n \in MinPasswordNum .. MaxTriedPasswordNum :
        /\ num = IntArg(n)
        /\ \E len \in 1 .. (n - 1) : password = LowerPrefix(len)
    /\ special \in BOOLEAN
    /\ wordfile = "unread"
    /\ dictionary = "unloaded"
    /\ words = << >>
    /\ phrase = NoText
    /\ ret = NoText
    /\ exc = "none"
    /\ result = NoResult
    /\ stdout = NoResult
    /\ exit_code = -1
    /\ drawn = NoDraws

\* Lines 76-104 once, x drawn from all of randrange(0, 100).
IterateOnce ==
    /\ pc = "loop"
    /\ Len(password) < num.val
    /\ \E x \in randrange(0, 100), x2 \in XEdges :
        LET sr == SpecialChoice(special, password, num.val, x)
            ar == AlnumBand(FinalX(special, password, num.val, x, x2))
        IN  \E cs \in EndsOf(sr), c \in EndsOf(ar) :
                /\ password' = Iteration(password, special, num.val, x, cs, x2, c)
                /\ drawn' = [before |-> password,
                             xs |-> IF sr # NoRange THEN <<x, x2>> ELSE <<x>>]
    /\ pc' = "iterated"
    /\ UNCHANGED <<caller, argv, args, fn, num, special, wordfile, dictionary,
                   words, phrase, ret, exc, result, stdout, exit_code>>

IterSpec == IterInit /\ [][IterateOnce]_vars

----------------------------------------------------------------------------
(* create_dice_passphrase called directly, every step taken in the end *)

DiceNext ==
    \/ CallCreateDicePassphrase
    \/ ValidateDice
    \/ LoadWordList
    \/ RollWord
    \/ JoinAndCheck

FairDiceSpec == Init /\ [][DiceNext]_vars /\ WF_vars(DiceNext)

----------------------------------------------------------------------------
(* The character classes, as the documentation of create_password and the *)
(* glossary give them                                                      *)

IsLower(c) == c \in 97..122
IsUpper(c) == c \in 65..90
IsDigit(c) == c \in 48..57
IsLetterOrDigit(c) == IsLower(c) \/ IsUpper(c) \/ IsDigit(c)
IsSpecial(c) == c \in (32..47) \cup (58..64) \cup (91..96) \cup (123..126)

PasswordReturned ==
    /\ fn = "create_password"
    /\ exc = "none"
    /\ pc \in {"returned", "printed", "exited"}

PhraseReturned ==
    /\ fn = "create_dice_passphrase"
    /\ exc = "none"
    /\ pc \in {"returned", "printed", "exited"}

Validated == pc \notin {"start", "parsed", "validate"}

----------------------------------------------------------------------------
(* Claims *)

\* C1: create_password(n, special) returns a string of exactly n characters
\* for every valid n and both values of special, and the string under
\* construction never grows past n, also in an iteration that appends a
\* special character and one more character.
PasswordLengthExact ==
    /\ (fn = "create_password" /\ Validated /\ exc = "none")
        => /\ num.val \in 7..64
           /\ Len(password) <= num.val
    /\ PasswordReturned => Len(ret) = num.val

\* A password was returned whose last two characters were appended by one
\* iteration: a special character and the closing letter or digit.
PasswordLengthExactWitness ==
    /\ PasswordReturned
    /\ special
    /\ Len(ret) = num.val
    /\ IsSpecial(ret[Len(ret) - 1])

\* C2: with special false every character of the string, while it is built
\* and when it is returned, is a lower-case letter, an upper-case letter or
\* a digit, and none is a special character.
NoSpecialWithoutFlag ==
    (fn = "create_password" /\ ~special)
        => /\ \A i \in 1..Len(password) :
                IsLetterOrDigit(password[i]) /\ ~IsSpecial(password[i])
           /\ \A i \in 1..Len(ret) :
                IsLetterOrDigit(ret[i]) /\ ~IsSpecial(ret[i])

\* A password of all three classes was returned with special false.
NoSpecialWithoutFlagWitness ==
    /\ PasswordReturned
    /\ ~special
    /\ \E i, j, k \in 1..Len(ret) :
        IsLower(ret[i]) /\ IsUpper(ret[j]) /\ IsDigit(ret[k])

\* C3: a phrase create_dice_passphrase(w) returns is w words of the word
\* list joined by single spaces, and its length is between 20 and 50.
PhraseAccepted ==
    PhraseReturned
        => /\ num.val \in 4..12
           /\ Len(split(ret)) = num.val
           /\ \A i \in 1..Len(split(ret)) : split(ret)[i] \in WordsOf(dictionary)
           /\ Len(ret) = Len(words) - 1 + SumLen(words)
           /\ Len(ret) >= 20
           /\ Len(ret) <= 50

\* A phrase of exactly 50 characters was returned.
PhraseAcceptedWitness ==
    /\ PhraseReturned
    /\ Len(ret) = 50
    /\ Len(split(ret)) = 8

DiceCallFinishes ==
    (fn = "create_dice_passphrase" /\ pc = "roll") ~> (pc = "returned")

\* C6: the process ends with status 0 when a password or passphrase was
\* printed, 1 when --number was invalid or out of range, 2 when the word
\* list could not be loaded; it never ends with 0 after an error message.
\* (The messages are those of main(); a --number that argparse itself
\* rejects is only required to end with a status other than 0.)
ExitCodePerOutcome ==
    (caller = "main" /\ pc = "exited")
        => /\ (stdout.msg = "none") => exit_code = 0
           /\ (stdout.msg \in {"must be an integer", "too low", "too high"})
                => exit_code = 1
           /\ (stdout.msg = "file cannot be found") => exit_code = 2
           /\ (stdout.msg # "none") => exit_code # 0

\* C7: a rolled key the word list lacks ends the call with an error of its
\* own kind: no phrase is returned, no further word is rolled, and main()
\* does not print the catch-all message for it.
MissingKeyIsDistinctError ==
    (exc = "KeyError")
        => /\ pc \in {"returned", "printed", "exited"}
           /\ ret = NoText
           /\ exc \notin {"NotIntegerError", "NumberTooLowError",
                          "NumberTooHighError", "FileNotFoundError"}
           /\ (pc \in {"printed", "exited"})
                => /\ stdout.msg # "failed for some reason"
                   /\ stdout.msg \notin {"none", "must be an integer",
                                         "too low", "too high",
                                         "file cannot be found"}

\* C8: in one iteration of the append loop, with special true and the
\* length below n-1 a first x of 80-84, 85-89, 90-94, 95-99 appends a
\* character of 32-47, 58-64, 91-96, 123-126 and x is drawn again, and any
\* other case appends no special character and keeps x; then one character
\* is appended from the final x: lower case below 47, a digit from 47 to
\* 71, upper case from 72.  The bands hold 47, 25, 28 values of x and 5
\* values for each special range.
ClaimedSpecial(x) ==
    IF x \in 80..84 THEN 32..47
    ELSE IF x \in 85..89 THEN 58..64
    ELSE IF x \in 90..94 THEN 91..96
    ELSE IF x \in 95..99 THEN 123..126
    ELSE {}

ClaimedLetterOrDigit(x) ==
    IF x < 47 THEN 97..122
    ELSE IF x < 72 THEN 48..57
    ELSE 65..90

IterationBands ==
    /\ (pc = "iterated")
        => LET before == drawn.before
               x == drawn.xs[1]
               added == SubSeq(password, Len(before) + 1, Len(password))
           IN  /\ SubSeq(password, 1, Len(before)) = before
               /\ IF special /\ Len(before) < num.val - 1 /\ x \in 80..99
                  THEN /\ Len(drawn.xs) = 2
                       /\ Len(added) = 2
                       /\ added[1] \in ClaimedSpecial(x)
                       /\ added[2] \in ClaimedLetterOrDigit(drawn.xs[2])
                  ELSE /\ Len(drawn.xs) = 1
                       /\ Len(added) = 1
                       /\ added[1] \in ClaimedLetterOrDigit(x)
    /\ Cardinality({x \in 0..99 : AlnumBand(x) = LowerRange}) = 47
    /\ Cardinality({x \in 0..99 : AlnumBand(x) = DigitRange}) = 25
    /\ Cardinality({x \in 0..99 : AlnumBand(x) = UpperRange}) = 28
    /\ \A r \in {Special1Range, Special2Range, Special3Range, Special4Range} :
        Cardinality({x \in 0..99 : SpecialBand(x) = r}) = 5

\* An iteration drew x = 84, appended "/" (47) and, from the redrawn
\* x = 47, the digit "0" (48).
IterationBandsWitness ==
    /\ pc = "iterated"
    /\ drawn.xs = <<84, 47>>
    /\ SubSeq(password, Len(drawn.before) + 1, Len(password)) = <<47, 48>>

\* C9: a password returned with special true starts with a letter, ends
\* with a letter or digit, has a letter or digit after every special
\* character, and so holds at most floor((n-1)/2) special characters.
SpecialPlacement ==
    (PasswordReturned /\ special)
        => /\ IsLower(ret[1]) \/ IsUpper(ret[1])
           /\ IsLetterOrDigit(ret[Len(ret)])
           /\ \A i \in 1..Len(ret) :
                IsSpecial(ret[i])
                    => (i < Len(ret) /\ IsLetterOrDigit(ret[i + 1]))
           /\ Cardinality({i \in 1..Len(ret) : IsSpecial(ret[i])})
                <= (num.val - 1) \div 2

\* A password was returned that holds floor((n-1)/2) special characters.
SpecialPlacementWitness ==
    /\ PasswordReturned
    /\ special
    /\ caller = "direct"
    /\ Cardinality({i \in 1..Len(ret) : IsSpecial(ret[i])})
        = (num.val - 1) \div 2

\* C10: main() calls the generator with the integer given as --number and
\* with the default (10 or 8) only when --number is absent; a given value
\* below the minimum of the mode prints the too-low message.
NumberPassedThrough ==
    (caller = "main" /\ pc \notin {"start", "parsed"}
                     /\ argv.number.type # "str")
        => /\ (argv.number.type = "int") => num = argv.number
           /\ (argv.number.type = "none")
                => num = IntArg(IF argv.dice THEN 8 ELSE 10)
           /\ (/\ argv.number.type = "int"
               /\ argv.number.val < (IF argv.dice THEN 4 ELSE 7)
               /\ pc \in {"printed", "exited"})
                => stdout.msg = "too low"

====
